---- MODULE Spec2Model ----
(***************************************************************************)
(* The training loop of train.py (function main) as a state machine.       *)
(*                                                                         *)
(* One iteration of `for step in range(steps)` is cut into its stages, in  *)
(* program order: periodic checkpoint, training step (batch draw, forward, *)
(* backward, optimizer step), lr decay, report flush, evaluation           *)
(* (sub-loop, flush, best-eval save), test (sub-loop, flush, best-test     *)
(* save).  The external collaborators (model, criterion, metric            *)
(* collections, data loaders) appear through what the loop observes of     *)
(* them: a loss value per forward pass, a PSNR value per compute(), a      *)
(* batch per next().  Losses are integers; a division is kept as the exact *)
(* fraction [num, den].                                                    *)
(***************************************************************************)
EXTENDS Integers, Sequences, FiniteSets, TLC

\* ------------------------------------------------------------------ bounds
MaxSteps == 5
MaxInterval == 3
MaxLen == 3
MaxValSteps == 2
MaxLoss == 2
MaxPsnr == 2
MaxListed == 2

VARIABLES
    \* configuration (train.py:71-86) and the lengths of the three loaders
    steps, save_interval, report_interval, lr_decay_intervals,
    evaluation_interval, test_intervals, val_steps,
    train_len, val_len, test_len,
    \* the values the criterion / the metric collections can yield per phase
    loss_range, psnr_range,
    \* loop state
    step, pc, crash, mode,
    model, optimizer, scheduler,
    train_iter, val_iter, test_iter, eval_step,
    tr_report_loss, val_report_loss, test_report_loss,
    metric_collection, val_metric_collection, test_metric_collection,
    tr_metrics, val_metrics, test_metrics,
    best_eval_psnr, best_test_psnr,
    saved,
    \* history variables (observations only, never read by the loop)
    trace, tr_window, val_window, test_window,
    train_draws, train_restarts, train_pass,
    val_draws, val_restarts, val_pass,
    \* the run that was resumed from a checkpoint, if this run is a resumed one
    uninterrupted

config == <<steps, save_interval, report_interval, lr_decay_intervals,
            evaluation_interval, test_intervals, train_len, val_len, test_len,
            loss_range, psnr_range>>

trainState == <<model, optimizer>>

trainFeed == <<train_iter, train_draws, train_restarts, train_pass>>

valFeed == <<val_iter, val_draws, val_restarts, val_pass, eval_step>>

trainAcc == <<tr_report_loss, metric_collection, tr_metrics, tr_window>>

valAcc == <<val_report_loss, val_metric_collection, val_metrics, val_window>>

testAcc == <<test_report_loss, test_metric_collection, test_metrics, test_window, test_iter>>

best == <<best_eval_psnr, best_test_psnr>>

vars == <<config, val_steps, step, pc, crash, mode, trainState, scheduler,
          trainFeed, valFeed, trainAcc, valAcc, testAcc, best, saved, trace,
          uninterrupted>>

\* ----------------------------------------------------------------- helpers
Phases == {"train", "val", "test"}

RECURSIVE SeqSum(_)
SeqSum(s) == IF s = <<>> THEN 0 ELSE Head(s) + SeqSum(Tail(s))

Last(s) == s[Len(s)]

Range(s) == {s[i] : i \in 1..Len(s)}

\* x in list  (Python membership test on a list)
InList(x, l) == \E i \in 1..Len(l) : l[i] = x

Undivided(a, b) == [num |-> a, den |-> 1]

\* a / b, kept exact
Div(a, b) == [num |-> a, den |-> b]

\* the fraction q equals a / b
FracEq(q, a, b) == q.num * b = a * q.den

\* ------------------------------------------------- the interval conditions
CheckpointDueNext(s) == (s + 1) % save_interval = 0 /\ s # 0

\* train.py:93
CheckpointDue(s) == s % save_interval = 0 /\ s # 0

\* train.py:131
DecayDue(s) == s % lr_decay_intervals = 0 /\ s # 0

ReportDueByCount(s) == metric_collection >= report_interval

ReportDueAtZero(s) == (s + 1) % report_interval = 0

\* train.py:136
ReportDue(s) == (s + 1) % report_interval = 0 /\ s # 0

EvalDueAtZero(s) == InList(s + 1, evaluation_interval)

\* train.py:151
EvalDue(s) == InList(s + 1, evaluation_interval) /\ s # 0

\* train.py:211
TestDue(s) == InList(s + 1, test_intervals) /\ s # 0

\* ------------------------------------------------------------- the feeders
IterLoaderShort(len) == 1..(len - 1)

\* iter(loader): a fresh pass, every batch of the loader still to come
IterLoader(len) == 1..len

CanDrawNoRestart(it, len) == it # {}

\* try next(it) / except StopIteration: it = iter(loader); next(it)
\* yields a batch unless the fresh pass is empty as well
CanDraw(it, len) == it # {} \/ IterLoader(len) # {}

\* the pass the batch is drawn from: the current one, or a fresh one
DrawFrom(it, len) == IF it # {} THEN it ELSE IterLoader(len)

\* times each batch was returned in the current pass
NoneDrawn(len) == [b \in 1..len |-> 0]

\* ------------------------------------------------------------ initial state
ListsUpTo(S, n) == UNION {[1..k -> S] : k \in 0..n}

Intervals == 1..MaxInterval

\* the decay intervals tried: two that fire, and one no run here reaches
DecayIntervals == {1, 2, 10}

UnitRange == [p \in Phases |-> {1}]

Losses == 1..MaxLoss

Psnrs == 0..MaxPsnr

\* train.py:62-69, 89: the state of main() when the loop is entered
InitLoop ==
    /\ step = 0
    /\ pc = "checkpoint"
    /\ crash = "none"
    /\ mode = "train"
    /\ model = 0
    /\ optimizer = 0
    /\ scheduler = 0
    /\ train_iter = IterLoader(train_len)
    /\ val_iter = {}
    /\ test_iter = 0
    /\ eval_step = 0
    /\ tr_report_loss = 0
    /\ val_report_loss = 0
    /\ test_report_loss = 0
    /\ metric_collection = 0
    /\ val_metric_collection = 0
    /\ test_metric_collection = 0
    /\ tr_metrics = <<>>
    /\ val_metrics = <<>>
    /\ test_metrics = <<>>
    /\ best_eval_psnr = 0
    /\ best_test_psnr = 0
    /\ saved = <<>>
    /\ trace = <<>>
    /\ tr_window = <<>>
    /\ val_window = <<>>
    /\ test_window = <<>>
    /\ train_draws = 0
    /\ train_restarts = 0
    /\ train_pass = NoneDrawn(train_len)
    /\ val_draws = 0
    /\ val_restarts = 0
    /\ val_pass = NoneDrawn(val_len)
    /\ uninterrupted = <<>>

\* the list <<2, 3, ..., n + 1>>
EarlySteps(n) == [i \in 1..n |-> i + 1]

\* every schedule, over sources of one batch with one possible loss and PSNR
InitSched ==
    /\ steps = MaxSteps
    /\ save_interval \in Intervals
    /\ report_interval \in Intervals
    /\ lr_decay_intervals \in DecayIntervals
    /\ evaluation_interval \in ListsUpTo(0..(MaxSteps + 1), 1)
    /\ test_intervals \in ListsUpTo(0..(MaxSteps + 1), 1)
    /\ val_steps = 1
    /\ train_len = 1
    /\ val_len = 1
    /\ test_len = 1
    /\ loss_range = UnitRange
    /\ psnr_range = UnitRange

\* every run length, training source length, report interval and training loss
InitTrain ==
    /\ steps \in 1..MaxSteps
    /\ save_interval = MaxInterval
    /\ report_interval \in Intervals
    /\ lr_decay_intervals = MaxInterval
    /\ evaluation_interval = <<>>
    /\ test_intervals = <<>>
    /\ val_steps = 1
    /\ train_len \in 0..MaxLen
    /\ val_len = 1
    /\ test_len = 1
    /\ loss_range = [UnitRange EXCEPT !["train"] = Losses]
    /\ psnr_range = UnitRange

\* every validation source length, sub-loop length and validation loss
InitVal ==
    /\ steps = MaxSteps
    /\ save_interval = MaxInterval
    /\ report_interval = MaxInterval
    /\ lr_decay_intervals = MaxInterval
    /\ evaluation_interval \in {EarlySteps(1), EarlySteps(2)}
    /\ test_intervals = <<>>
    /\ val_steps \in 0..MaxValSteps
    /\ train_len = 1
    /\ val_len \in 0..MaxLen
    /\ test_len = 1
    /\ loss_range = [UnitRange EXCEPT !["val"] = Losses]
    /\ psnr_range = UnitRange

\* every test source length and test loss
InitTest ==
    /\ steps = MaxSteps
    /\ save_interval = MaxInterval
    /\ report_interval = MaxInterval
    /\ lr_decay_intervals = MaxInterval
    /\ evaluation_interval \in {<<>>, EarlySteps(1)}
    /\ test_intervals \in {EarlySteps(1), EarlySteps(2)}
    /\ val_steps = 1
    /\ train_len = 1
    /\ val_len = 1
    /\ test_len \in 0..MaxLen
    /\ loss_range = [UnitRange EXCEPT !["test"] = Losses]
    /\ psnr_range = UnitRange

\* every sequence of validation and test PSNR values, up to MaxListed events
InitBest ==
    /\ steps = MaxSteps
    /\ save_interval = MaxInterval
    /\ report_interval = MaxInterval
    /\ lr_decay_intervals = MaxInterval
    /\ \E n \in 0..MaxListed :
         \/ evaluation_interval = EarlySteps(n) /\ test_intervals \in {<<>>, <<2>>}
         \/ test_intervals = EarlySteps(n) /\ evaluation_interval \in {<<>>, <<2>>}
    /\ val_steps = 1
    /\ train_len = 1
    /\ val_len = 1
    /\ test_len = 1
    /\ loss_range = UnitRange
    /\ psnr_range = [p \in Phases |-> IF p = "train" THEN {1} ELSE Psnrs]

Init == (InitSched \/ InitTrain \/ InitVal \/ InitTest \/ InitBest) /\ InitLoop

\* ------------------------------------------------------- the loop, by stage
AfterReportFirst(stage) ==
    CASE stage = "checkpoint" -> "train"
      [] stage = "train" -> "report"
      [] stage = "report" -> "decay"
      [] stage = "decay" -> "evaluate"
      [] stage = "evaluate" -> "test"
      [] stage = "test" -> "next"

\* the statement order of the loop body (train.py:93, 102, 131, 136, 151, 211)
After(stage) ==
    CASE stage = "checkpoint" -> "train"
      [] stage = "train" -> "decay"
      [] stage = "decay" -> "report"
      [] stage = "report" -> "evaluate"
      [] stage = "evaluate" -> "test"
      [] stage = "test" -> "next"

Did(kind) == Append(trace, <<step, kind>>)

OptimizerStepSkipped(n) == n

\* optimizer.step(): one more update of the parameters (train.py:120)
OptimizerStep(n) == n + 1

\* optimizer.state_dict(): the update count and the learning rate, which
\* scheduler.step() lowers (train.py:85, 96, 132)
OptimizerState == [updates |-> optimizer, lr_decays |-> scheduler]

\* train.py:94-99
PeriodicCheckpoint ==
    [step |-> step, state_dict |-> model, optimizer |-> OptimizerState,
     tr_metrics |-> tr_metrics, val_metrics |-> val_metrics,
     test_metrics |-> test_metrics]

\* train.py:201-206
BestEvalCheckpoint ==
    [step |-> step, state_dict |-> model, optimizer |-> OptimizerState,
     tr_metrics |-> tr_metrics, val_metrics |-> val_metrics,
     test_metrics |-> test_metrics]

\* train.py:252-257: the val_metrics entry is commented out
BestTestCheckpoint ==
    [step |-> step, state_dict |-> model, optimizer |-> OptimizerState,
     tr_metrics |-> tr_metrics, test_metrics |-> test_metrics]

SaveAsBestTest(label, checkpoint) ==
    Append(saved, [label |-> "best_test", checkpoint |-> checkpoint])

\* save_checkpoint(checkpoint, 'MDCUN', label): the call, as the loop makes it
SaveCheckpoint(label, checkpoint) ==
    Append(saved, [label |-> label, checkpoint |-> checkpoint])

SupersedesOnTie(score, stored) == score >= stored

\* train.py:199, 250
Supersedes(score, stored) == score > stored

ListReplace(l, x) == <<x>>

\* train.py:142, 183, 234: list.append
ListAppend(l, x) == Append(l, x)

ModelStays(m) == m

\* train.py:153, 213: model.eval()
ModelEval(m) == "eval"

\* train.py:196, 247: model.train()
ModelTrain(m) == "train"

Swallow(exception) ==
    /\ crash' = exception
    /\ pc' = pc

\* an uncaught exception ends main()
Raise(exception) ==
    /\ crash' = exception
    /\ pc' = "crashed"

\* train.py:93-100
Checkpoint ==
    /\ pc = "checkpoint"
    /\ IF CheckpointDue(step)
       THEN /\ saved' = SaveCheckpoint("periodic", PeriodicCheckpoint)
            /\ trace' = Did("checkpoint")
       ELSE UNCHANGED <<saved, trace>>
    /\ pc' = After("checkpoint")
    /\ UNCHANGED <<config, uninterrupted, val_steps, step, crash, mode, trainState, scheduler,
                   trainFeed, valFeed, trainAcc, valAcc, testAcc, best>>

\* train.py:102-128: batch draw, forward, loss, backward, optimizer step
TrainStep ==
    /\ pc = "train"
    /\ IF CanDraw(train_iter, train_len)
       THEN \E b \in DrawFrom(train_iter, train_len), tr_loss \in loss_range["train"] :
              /\ train_iter' = DrawFrom(train_iter, train_len) \ {b}
              /\ train_draws' = train_draws + 1
              /\ train_restarts' = train_restarts + (IF train_iter = {} THEN 1 ELSE 0)
              /\ train_pass' = IF train_iter = {}
                               THEN [NoneDrawn(train_len) EXCEPT ![b] = 1]
                               ELSE [train_pass EXCEPT ![b] = @ + 1]
              /\ tr_report_loss' = tr_report_loss + tr_loss
              /\ metric_collection' = metric_collection + 1
              /\ model' = OptimizerStep(model)
              /\ optimizer' = OptimizerStep(optimizer)
              /\ tr_window' = Append(tr_window, tr_loss)
              /\ trace' = Did("train")
              /\ pc' = After("train")
              /\ UNCHANGED <<crash, tr_metrics>>
       ELSE /\ Raise("StopIteration")
            /\ UNCHANGED <<trainState, trainFeed, trainAcc, trace>>
    /\ UNCHANGED <<config, uninterrupted, val_steps, step, mode, scheduler, valFeed, valAcc,
                   testAcc, best, saved>>

\* train.py:131-132
LrDecay ==
    /\ pc = "decay"
    /\ IF DecayDue(step)
       THEN /\ scheduler' = scheduler + 1
            /\ trace' = Did("decay")
       ELSE UNCHANGED <<scheduler, trace>>
    /\ pc' = After("decay")
    /\ UNCHANGED <<config, uninterrupted, val_steps, step, crash, mode, trainState, trainFeed,
                   valFeed, trainAcc, valAcc, testAcc, best, saved>>

\* train.py:136-148
Report ==
    /\ pc = "report"
    /\ IF ReportDue(step)
       THEN \E psnr \in psnr_range["train"] :
              /\ tr_metrics' = ListAppend(tr_metrics,
                                      [loss |-> Div(tr_report_loss, report_interval),
                                       psnr |-> psnr])
              /\ tr_report_loss' = 0
              /\ metric_collection' = 0
              /\ tr_window' = <<>>
              /\ trace' = Did("report")
       ELSE UNCHANGED <<trainAcc, trace>>
    /\ pc' = After("report")
    /\ UNCHANGED <<config, uninterrupted, val_steps, step, crash, mode, trainState, scheduler,
                   trainFeed, valFeed, valAcc, testAcc, best, saved>>

\* train.py:151-159: entering the evaluation, or skipping it
Evaluate ==
    /\ pc = "evaluate"
    /\ IF EvalDue(step)
       THEN /\ mode' = ModelEval(mode)
            /\ val_steps' = IF val_steps # 0 THEN val_steps ELSE val_len
            /\ val_iter' = IterLoader(val_len)
            /\ eval_step' = 0
            /\ val_draws' = 0
            /\ val_restarts' = 0
            /\ val_pass' = NoneDrawn(val_len)
            /\ val_window' = <<>>
            /\ trace' = Did("evaluate")
            /\ pc' = "eval_loop"
            /\ UNCHANGED <<val_report_loss, val_metric_collection, val_metrics>>
       ELSE /\ pc' = After("evaluate")
            /\ UNCHANGED <<mode, val_steps, valFeed, valAcc, trace>>
    /\ UNCHANGED <<config, uninterrupted, step, crash, trainState, scheduler, trainFeed,
                   trainAcc, testAcc, best, saved>>

\* train.py:160-178: one mini-step of the validation sub-loop
EvalStep ==
    /\ pc = "eval_loop"
    /\ eval_step < val_steps
    /\ IF CanDraw(val_iter, val_len)
       THEN \E b \in DrawFrom(val_iter, val_len), val_loss \in loss_range["val"] :
              /\ val_iter' = DrawFrom(val_iter, val_len) \ {b}
              /\ val_draws' = val_draws + 1
              /\ val_restarts' = val_restarts + (IF val_iter = {} THEN 1 ELSE 0)
              /\ val_pass' = IF val_iter = {}
                             THEN [NoneDrawn(val_len) EXCEPT ![b] = 1]
                             ELSE [val_pass EXCEPT ![b] = @ + 1]
              /\ val_metric_collection' = val_metric_collection + 1
              /\ val_report_loss' = val_report_loss + val_loss
              /\ val_window' = Append(val_window, val_loss)
              /\ eval_step' = eval_step + 1
              /\ UNCHANGED <<pc, crash, val_metrics>>
       ELSE /\ Raise("StopIteration")
            /\ UNCHANGED <<valFeed, valAcc>>
    /\ UNCHANGED <<config, uninterrupted, val_steps, step, mode, trainState, scheduler,
                   trainFeed, trainAcc, testAcc, best, saved, trace>>

\* train.py:180-196: the sub-loop is over; flush, reset, back to train mode
EvalFlush ==
    /\ pc = "eval_loop"
    /\ eval_step >= val_steps
    /\ IF val_len = 0
       THEN /\ Raise("ZeroDivisionError")
            /\ UNCHANGED <<mode, valAcc>>
       ELSE \E psnr \in psnr_range["val"] :
              /\ val_metrics' = ListAppend(val_metrics,
                                       [loss |-> Div(val_report_loss, val_len),
                                        psnr |-> psnr])
              /\ val_report_loss' = 0
              /\ val_metric_collection' = 0
              /\ mode' = ModelTrain(mode)
              /\ pc' = "eval_best"
              /\ UNCHANGED <<crash, val_window>>
    /\ UNCHANGED <<config, uninterrupted, val_steps, step, trainState, scheduler, trainFeed,
                   valFeed, trainAcc, testAcc, best, saved, trace>>

\* train.py:199-208
EvalBest ==
    /\ pc = "eval_best"
    /\ IF Supersedes(Last(val_metrics).psnr, best_eval_psnr)
       THEN /\ best_eval_psnr' = Last(val_metrics).psnr
            /\ saved' = SaveCheckpoint("best_eval", BestEvalCheckpoint)
            /\ trace' = Did("best_eval")
       ELSE UNCHANGED <<best_eval_psnr, saved, trace>>
    /\ pc' = After("evaluate")
    /\ UNCHANGED <<config, uninterrupted, val_steps, step, crash, mode, trainState, scheduler,
                   trainFeed, valFeed, trainAcc, valAcc, testAcc, best_test_psnr>>

\* train.py:211-217: entering the test, or skipping it
Test ==
    /\ pc = "test"
    /\ IF TestDue(step)
       THEN /\ mode' = ModelEval(mode)
            /\ test_iter' = 0
            /\ test_window' = <<>>
            /\ trace' = Did("test")
            /\ pc' = "test_loop"
            /\ UNCHANGED <<test_report_loss, test_metric_collection, test_metrics>>
       ELSE /\ pc' = After("test")
            /\ UNCHANGED <<mode, testAcc, trace>>
    /\ UNCHANGED <<config, uninterrupted, val_steps, step, crash, trainState, scheduler,
                   trainFeed, valFeed, trainAcc, valAcc, best, saved>>

\* train.py:218-229: one item of the test loader, in its order
TestStep ==
    /\ pc = "test_loop"
    /\ test_iter < test_len
    /\ \E test_loss \in loss_range["test"] :
         /\ test_iter' = test_iter + 1
         /\ test_metric_collection' = test_metric_collection + 1
         /\ test_report_loss' = test_report_loss + test_loss
         /\ test_window' = Append(test_window, <<test_iter + 1, test_loss>>)
    /\ UNCHANGED <<config, uninterrupted, val_steps, step, pc, crash, mode, trainState, scheduler,
                   trainFeed, valFeed, trainAcc, valAcc, test_metrics, best,
                   saved, trace>>

\* train.py:231-247: the loader is exhausted; flush, reset, back to train mode
TestFlush ==
    /\ pc = "test_loop"
    /\ test_iter >= test_len
    /\ IF test_len = 0
       THEN /\ Raise("ZeroDivisionError")
            /\ UNCHANGED <<mode, testAcc>>
       ELSE \E psnr \in psnr_range["test"] :
              /\ test_metrics' = ListAppend(test_metrics,
                                        [loss |-> Div(test_report_loss, test_len),
                                         psnr |-> psnr])
              /\ test_report_loss' = 0
              /\ test_metric_collection' = 0
              /\ mode' = ModelTrain(mode)
              /\ pc' = "test_best"
              /\ UNCHANGED <<crash, test_window, test_iter>>
    /\ UNCHANGED <<config, uninterrupted, val_steps, step, trainState, scheduler, trainFeed,
                   valFeed, trainAcc, valAcc, best, saved, trace>>

\* train.py:250-259
TestBest ==
    /\ pc = "test_best"
    /\ IF Supersedes(Last(test_metrics).psnr, best_test_psnr)
       THEN /\ best_test_psnr' = Last(test_metrics).psnr
            /\ saved' = SaveCheckpoint("best_test", BestTestCheckpoint)
            /\ trace' = Did("best_test")
       ELSE UNCHANGED <<best_test_psnr, saved, trace>>
    /\ pc' = After("test")
    /\ UNCHANGED <<config, uninterrupted, val_steps, step, crash, mode, trainState, scheduler,
                   trainFeed, valFeed, trainAcc, valAcc, testAcc, best_eval_psnr>>

RangeNextSkip(s) == s + 2

\* train.py:92: range(steps) yields the successor of the value it yielded last
RangeNext(s) == s + 1

\* train.py:92, 261: the next value of range(steps), or the end of the loop
ForNext ==
    /\ pc = "next"
    /\ IF step + 1 < steps
       THEN /\ step' = RangeNext(step)
            /\ pc' = "checkpoint"
       ELSE /\ pc' = "done"
            /\ UNCHANGED step
    /\ UNCHANGED <<config, uninterrupted, val_steps, crash, mode, trainState, scheduler,
                   trainFeed, valFeed, trainAcc, valAcc, testAcc, best, saved,
                   trace>>

Next ==
    \/ Checkpoint
    \/ TrainStep
    \/ LrDecay
    \/ Report
    \/ Evaluate
    \/ EvalStep
    \/ EvalFlush
    \/ EvalBest
    \/ Test
    \/ TestStep
    \/ TestFlush
    \/ TestBest
    \/ ForNext

Spec == Init /\ [][Next]_vars

\* main() runs to its end: the interpreter always takes the next statement
\* the runs over every source length, sub-loop length and run length
InitFair == (InitTrain \/ InitVal \/ InitTest) /\ InitLoop

SpecFair == InitFair /\ [][Next]_vars /\ WF_vars(Next)

\* ================================================================== claims
IntervalKinds == {"checkpoint", "decay", "report", "evaluate", "test"}

SaveKinds == {"checkpoint", "best_eval", "best_test"}

Fired(s, kind) == <<s, kind>> \in Range(trace)

IsIntervalEvent(e) == e[2] \in IntervalKinds

IsSaveEvent(e) == e[2] \in SaveKinds

\* the iterations whose every stage has run
Completed == IF pc \in {"next", "done"} THEN 0..step ELSE 0..(step - 1)

Max(S) == CHOOSE x \in S : \A y \in S : y <= x

\* C1: in every completed iteration s the loop took exactly the decisions of
\* the reference table, each on its own: checkpoint iff s % save_interval = 0
\* and s # 0; decay iff s % lr_decay_interval = 0 and s # 0; report iff
\* (s + 1) % report_interval = 0 and s # 0; evaluate (test) iff s + 1 is an
\* evaluation (test) step and s # 0; iteration 0 fires nothing.
C1_DecisionsMatchTable ==
    \A s \in Completed :
        /\ Fired(s, "checkpoint") <=> (s % save_interval = 0 /\ s # 0)
        /\ Fired(s, "decay") <=> (s % lr_decay_intervals = 0 /\ s # 0)
        /\ Fired(s, "report") <=> ((s + 1) % report_interval = 0 /\ s # 0)
        /\ Fired(s, "evaluate") <=> ((s + 1) \in Range(evaluation_interval) /\ s # 0)
        /\ Fired(s, "test") <=> ((s + 1) \in Range(test_intervals) /\ s # 0)
        /\ s = 0 => \A k \in IntervalKinds : ~Fired(s, k)

\* all five actions fire in one iteration
C1_Witness ==
    /\ pc = "next"
    /\ \A k \in IntervalKinds : Fired(step, k)
    /\ save_interval = 1
    /\ report_interval = 1

\* C2: with total_steps = 5, save_interval = 2, report_interval = 2,
\* evaluation steps {3}, lr_decay_interval = 10 and no test step, the interval
\* actions of the run are, in order: report at step 1, checkpoint then
\* evaluation at step 2, report at step 3, checkpoint at step 4, and no others.
C2_Scenario ==
    /\ steps = 5
    /\ save_interval = 2
    /\ report_interval = 2
    /\ evaluation_interval = <<3>>
    /\ lr_decay_intervals = 10
    /\ test_intervals = <<>>

C2_Expected ==
    << <<1, "report">>, <<2, "checkpoint">>, <<2, "evaluate">>,
       <<3, "report">>, <<4, "checkpoint">> >>

C2_ScenarioTrace ==
    C2_Scenario =>
        LET got == SelectSeq(trace, IsIntervalEvent) IN
        /\ Len(got) <= Len(C2_Expected)
        /\ got = SubSeq(C2_Expected, 1, Len(got))
        /\ pc = "done" => got = C2_Expected
        /\ pc = "next" /\ step = 2 => Len(got) = 3

C2_Witness == C2_Scenario /\ pc = "done" /\ crash = "none"

\* C3: within an iteration the stages that run do so in the order periodic
\* checkpoint, training step, lr decay, report, evaluation, best-eval save,
\* test, best-test save; iterations follow one another in step order; and an
\* interval action runs in the iteration in which it is due.
C3_Rank(kind) ==
    CASE kind = "checkpoint" -> 1
      [] kind = "train" -> 2
      [] kind = "decay" -> 3
      [] kind = "report" -> 4
      [] kind = "evaluate" -> 5
      [] kind = "best_eval" -> 6
      [] kind = "test" -> 7
      [] kind = "best_test" -> 8

C3_DueIn(s, kind) ==
    CASE kind = "checkpoint" -> s % save_interval = 0 /\ s # 0
      [] kind = "decay" -> s % lr_decay_intervals = 0 /\ s # 0
      [] kind = "report" -> (s + 1) % report_interval = 0 /\ s # 0
      [] kind = "evaluate" -> (s + 1) \in Range(evaluation_interval) /\ s # 0
      [] kind = "test" -> (s + 1) \in Range(test_intervals) /\ s # 0
      [] OTHER -> TRUE

C3_FixedOrder ==
    /\ \A i \in 1..Len(trace) : \A j \in (i + 1)..Len(trace) :
          \/ trace[i][1] < trace[j][1]
          \/ /\ trace[i][1] = trace[j][1]
             /\ C3_Rank(trace[i][2]) < C3_Rank(trace[j][2])
    /\ \A i \in 1..Len(trace) :
          /\ C3_DueIn(trace[i][1], trace[i][2])
          /\ trace[i][1] <= step

\* every stage ran in one iteration
C3_Witness ==
    /\ pc = "next"
    /\ \A k \in IntervalKinds \cup {"train", "best_eval", "best_test"} : Fired(step, k)
    /\ save_interval > 1
    /\ lr_decay_intervals > 1

\* C4: a periodic checkpoint saved in iteration s has step field s and holds
\* the model and optimizer after s updates; from the lr decay stage on, and
\* so for the report, the evaluation and the test of iteration s, the state is
\* the one after s + 1 updates; a best-eval or best-test checkpoint saved in
\* iteration s has step field s and holds the state after s + 1 updates.
C4_UpdatesInCheckpoint ==
    LET saves == SelectSeq(trace, IsSaveEvent) IN
    /\ Len(saves) = Len(saved)
    /\ \A i \in 1..Len(saved) :
          LET c == saved[i].checkpoint IN
          /\ c.step = saves[i][1]
          /\ saved[i].label = "periodic" <=> saves[i][2] = "checkpoint"
          /\ saved[i].label = "best_eval" <=> saves[i][2] = "best_eval"
          /\ saved[i].label = "best_test" <=> saves[i][2] = "best_test"
          /\ saved[i].label = "periodic" =>
                c.state_dict = c.step /\ c.optimizer.updates = c.step
          /\ saved[i].label \in {"best_eval", "best_test"} =>
                c.state_dict = c.step + 1 /\ c.optimizer.updates = c.step + 1
    /\ pc \in {"checkpoint", "train"} => model = step /\ optimizer = step
    /\ pc \in {"decay", "report", "evaluate", "eval_loop", "eval_best", "test",
               "test_loop", "test_best", "next", "done"} =>
          model = step + 1 /\ optimizer = step + 1

\* one iteration saved a periodic, a best-eval and a best-test checkpoint
C4_Witness ==
    /\ pc = "next"
    /\ step >= 2
    /\ \A l \in {"periodic", "best_eval", "best_test"} :
          \E i \in 1..Len(saved) :
              saved[i].label = l /\ saved[i].checkpoint.step = step

C5_BestOf(history, n) == Max({0} \cup {history[j].psnr : j \in 1..n})

C5_SavedAt(label, i) ==
    \E k \in 1..Len(saved) :
        /\ saved[k].label = label
        /\ Len(IF label = "best_eval" THEN saved[k].checkpoint.val_metrics
                                      ELSE saved[k].checkpoint.test_metrics) = i

\* C5: for validation and for test, outside the moment between a flush and
\* its best-score decision, the stored best is the maximum of 0 and the PSNR
\* values of the phase's history; the i-th event of a phase saved its best
\* checkpoint iff its PSNR is strictly greater than the maximum of 0 and the
\* PSNR values before it (a tie or a lower value saves nothing).
C5_BestIsStrictMax ==
    /\ pc # "eval_best" => best_eval_psnr = C5_BestOf(val_metrics, Len(val_metrics))
    /\ pc # "test_best" => best_test_psnr = C5_BestOf(test_metrics, Len(test_metrics))
    /\ pc = "eval_best" =>
          best_eval_psnr = C5_BestOf(val_metrics, Len(val_metrics) - 1)
    /\ pc = "test_best" =>
          best_test_psnr = C5_BestOf(test_metrics, Len(test_metrics) - 1)
    /\ \A i \in 1..Len(val_metrics) :
          (i < Len(val_metrics) \/ pc # "eval_best") =>
             (C5_SavedAt("best_eval", i)
                 <=> val_metrics[i].psnr > C5_BestOf(val_metrics, i - 1))
    /\ \A i \in 1..Len(test_metrics) :
          (i < Len(test_metrics) \/ pc # "test_best") =>
             (C5_SavedAt("best_test", i)
                 <=> test_metrics[i].psnr > C5_BestOf(test_metrics, i - 1))

\* a second evaluation tied with the best and saved nothing
C5_Witness ==
    /\ pc = "test"
    /\ Len(val_metrics) = 2
    /\ val_metrics[1].psnr = MaxPsnr
    /\ val_metrics[2].psnr = MaxPsnr
    /\ best_eval_psnr = MaxPsnr
    /\ C5_SavedAt("best_eval", 1)
    /\ ~C5_SavedAt("best_eval", 2)

C6_Keys == {"step", "state_dict", "optimizer", "tr_metrics", "val_metrics",
            "test_metrics"}

\* the last stage that ran was a save, and nothing has changed since
C6_JustSaved == trace # <<>> /\ Last(trace)[1] = step /\ IsSaveEvent(Last(trace))

\* C6: every checkpoint the run saves, periodic, best-eval or best-test,
\* holds the step, the model state, the optimizer state and the train,
\* validation and test histories as they stand when it is saved.
C6_BundleComplete ==
    /\ \A i \in 1..Len(saved) : DOMAIN saved[i].checkpoint = C6_Keys
    /\ C6_JustSaved =>
          LET c == Last(saved).checkpoint IN
          /\ c.step = step
          /\ c.state_dict = model
          /\ c.optimizer = OptimizerState
          /\ c.tr_metrics = tr_metrics
          /\ c.val_metrics = val_metrics
          /\ c.test_metrics = test_metrics

C7_Returned(pass) == {b \in DOMAIN pass : pass[b] > 0}

C7_Feeder(len, draws, restarts, it, pass) ==
    /\ \A b \in DOMAIN pass : pass[b] <= 1
    /\ it = {} /\ draws >= 1 => \A b \in 1..len : pass[b] = 1
    /\ draws >= 1 => Cardinality(C7_Returned(pass)) = ((draws - 1) % len) + 1

\* C7 as stated: N = L + k draws (k >= 1) from a source of L >= 1 batches
\* cause exactly k restarts, and no pass repeats or omits a batch.
C7_KRestarts ==
    /\ train_len >= 1 /\ train_draws > train_len =>
          /\ train_restarts = train_draws - train_len
          /\ C7_Feeder(train_len, train_draws, train_restarts, train_iter, train_pass)
    /\ val_len >= 1 /\ val_draws > val_len =>
          /\ val_restarts = val_draws - val_len
          /\ C7_Feeder(val_len, val_draws, val_restarts, val_iter, val_pass)

\* C7, amended: N >= 1 draws from a source of L >= 1 batches cause exactly
\* (N - 1) \div L restarts (one per completed pass that a further draw follows);
\* every pass starts afresh and is L batches long, no batch is returned twice
\* in a pass, and a completed pass has returned each of the L batches once.
C7_RestartsPerPass ==
    /\ train_len >= 1 /\ train_draws >= 1 =>
          /\ train_restarts = (train_draws - 1) \div train_len
          /\ C7_Feeder(train_len, train_draws, train_restarts, train_iter, train_pass)
    /\ val_len >= 1 /\ val_draws >= 1 =>
          /\ val_restarts = (val_draws - 1) \div val_len
          /\ C7_Feeder(val_len, val_draws, val_restarts, val_iter, val_pass)

\* five draws from two batches: three beyond the length, two restarts
C7_Witness ==
    /\ train_len = 2
    /\ train_draws = 5
    /\ train_restarts = 2
    /\ train_iter # {}

\* C8 as stated: whatever the length of the source, no batch draw of the
\* training loop or of the validation sub-loop ends the run with an
\* end-of-data condition.
C8_NeverEndOfData == crash # "StopIteration"

\* C8, amended: over a source of at least one batch, no batch draw of the
\* training loop or of the validation sub-loop ends the run with an
\* end-of-data condition: an exhausted pass is followed by a fresh one.
C8_NonEmptyNeverEndOfData ==
    /\ train_len >= 1 => ~(crash = "StopIteration" /\ mode = "train")
    /\ val_len >= 1 => ~(crash = "StopIteration" /\ mode = "eval")

\* a run that restarted both feeders and reached the end of the loop
C8_Witness ==
    /\ pc = "done"
    /\ crash = "none"
    /\ train_restarts >= 1
    /\ val_restarts >= 1

\* C9: whatever report_interval >= 1, a snapshot appended to the train
\* history has as loss the sum of the losses of the training steps since the
\* previous flush (or the start) divided by their number, which is
\* report_interval; after the flush the accumulator is 0 and the metric
\* collection is reset.
C9_WindowAverage ==
    [][tr_metrics' # tr_metrics =>
          /\ Len(tr_metrics') = Len(tr_metrics) + 1
          /\ Len(tr_window) = report_interval
          /\ FracEq(Last(tr_metrics').loss, SeqSum(tr_window), Len(tr_window))
          /\ tr_report_loss' = 0
          /\ metric_collection' = 0]_vars

\* C10: the loss of a validation snapshot is the sum of the losses of the
\* mini-batches the evaluation consumed divided by their number, val_steps.
C10_ValidationAverage ==
    pc = "eval_best" =>
        /\ Len(val_window) = val_steps
        /\ FracEq(Last(val_metrics).loss, SeqSum(val_window), Len(val_window))

\* the test events begun so far
C11_TestEvents == Len(SelectSeq(trace, LAMBDA e : e[2] = "test"))

C11_EventOver == pc \notin {"test_loop"}

C11_OneFullPass ==
    /\ pc = "test_loop" =>
          /\ Len(test_window) = test_iter
          /\ \A i \in 1..Len(test_window) : test_window[i][1] = i
          /\ test_report_loss = SeqSum([i \in 1..Len(test_window) |-> test_window[i][2]])
          /\ test_metric_collection = Len(test_window)
    /\ pc = "test_best" =>
          /\ Len(test_window) = test_len
          /\ \A i \in 1..test_len : test_window[i][1] = i
          /\ FracEq(Last(test_metrics).loss,
                    SeqSum([i \in 1..test_len |-> test_window[i][2]]), test_len)
    /\ C11_EventOver =>
          /\ Len(test_metrics) = C11_TestEvents
          /\ test_report_loss = 0
          /\ test_metric_collection = 0

\* C11 as stated: every test event visits each item of the test source once,
\* in order, from the first, without restart; it appends one snapshot to the
\* test history, whose loss is the sum of the items' losses divided by their
\* number; it leaves the test accumulator at 0 and the collection reset.
C11_EveryTestEvent == C11_OneFullPass

\* C11, amended: the same, for a test source of at least one item.  (Over an
\* empty test source the division by len(test_loader) ends the run and no
\* snapshot is appended.)
C11_NonEmptyTestEvent == test_len >= 1 => C11_OneFullPass

\* a test event over the longest source has just been flushed
C11_Witness ==
    /\ pc = "test_best"
    /\ test_len = MaxLen
    /\ Len(test_window) = MaxLen
    /\ Len(test_metrics) = 2
    /\ \E i \in 1..MaxLen : test_window[i][2] # test_window[1][2]

\* ------------------------------------------------- resuming from a checkpoint
\* a history of the bundle, or the empty list main() starts with (train.py:65-67)
Restored(c, key) == IF key \in DOMAIN c THEN c[key] ELSE <<>>

\* the best score the restored history of a phase accounts for
RestoredBest(history) == Max({0} \cup {history[j].psnr : j \in 1..Len(history)})

\* what is kept of the run that is resumed, to compare the resumed run with
Observed(k) ==
    [label |-> saved[k].label, step |-> saved[k].checkpoint.step,
     trace |-> trace, tr_metrics |-> tr_metrics, val_metrics |-> val_metrics,
     test_metrics |-> test_metrics, best_eval_psnr |-> best_eval_psnr,
     best_test_psnr |-> best_test_psnr]

\* A finished run is started again from one of the checkpoints it saved: the
\* step counter, the model, the optimizer and the histories come from the
\* bundle, the best scores from the restored histories, and everything else
\* is as main() sets it up (train.py:62-69, 89).
Resume ==
    /\ pc = "done"
    /\ uninterrupted = <<>>
    /\ \E k \in 1..Len(saved) :
         LET c == saved[k].checkpoint IN
         /\ uninterrupted' = <<Observed(k)>>
         /\ step' = c.step
         /\ model' = c.state_dict
         /\ optimizer' = c.optimizer.updates
         /\ scheduler' = c.optimizer.lr_decays
         /\ tr_metrics' = c.tr_metrics
         /\ val_metrics' = Restored(c, "val_metrics")
         /\ test_metrics' = c.test_metrics
         /\ best_eval_psnr' = RestoredBest(Restored(c, "val_metrics"))
         /\ best_test_psnr' = RestoredBest(c.test_metrics)
    /\ pc' = "checkpoint"
    /\ mode' = "train"
    /\ train_iter' = IterLoader(train_len)
    /\ train_draws' = 0
    /\ train_restarts' = 0
    /\ train_pass' = NoneDrawn(train_len)
    /\ val_iter' = {}
    /\ val_draws' = 0
    /\ val_restarts' = 0
    /\ val_pass' = NoneDrawn(val_len)
    /\ eval_step' = 0
    /\ test_iter' = 0
    /\ tr_report_loss' = 0
    /\ val_report_loss' = 0
    /\ test_report_loss' = 0
    /\ metric_collection' = 0
    /\ val_metric_collection' = 0
    /\ test_metric_collection' = 0
    /\ tr_window' = <<>>
    /\ val_window' = <<>>
    /\ test_window' = <<>>
    /\ trace' = <<>>
    /\ UNCHANGED <<config, val_steps, crash, saved>>

NextResume ==
    \/ Next
    \/ Resume

\* the runs that are resumed: every save and report interval, at most one
\* evaluation and one test step, sources of one batch, one loss and one PSNR
InitResume ==
    /\ steps = MaxSteps
    /\ save_interval \in Intervals
    /\ report_interval \in Intervals
    /\ lr_decay_intervals \in {2}
    /\ evaluation_interval \in ListsUpTo(2..MaxSteps, 1)
    /\ test_intervals \in ListsUpTo(2..MaxSteps, 1)
    /\ val_steps = 1
    /\ train_len = 1
    /\ val_len = 1
    /\ test_len = 1
    /\ loss_range = UnitRange
    /\ psnr_range = UnitRange
    /\ InitLoop

SpecResume == InitResume /\ [][NextResume]_vars

\* the run is a resumed one
C12_Resumed == uninterrupted # <<>>

\* C12: a run resumed at the step of any checkpoint the run saved fires, in
\* every iteration from that step to the last, the same interval actions as
\* the uninterrupted run fired in that iteration.
C12_SameDecisions ==
    C12_Resumed =>
        \A s \in Completed : \A k \in IntervalKinds :
            s >= uninterrupted[1].step =>
                (Fired(s, k) <=> <<s, k>> \in Range(uninterrupted[1].trace))

\* a run resumed from a best-eval checkpoint is over, and has evaluated again
C12_Witness ==
    /\ C12_Resumed
    /\ pc = "done"
    /\ uninterrupted[1].label = "best_eval"
    /\ uninterrupted[1].step < steps - 1
    /\ \E s \in 1..(steps - 1) : Fired(s, "evaluate") /\ Fired(s, "report")

\* C13: a run resumed from any checkpoint the run saved ends with as many
\* train, validation and test snapshots as the uninterrupted run (none lost,
\* none appended twice) and, the data being the same, with the same best
\* validation and test scores.
C13_SameHistories ==
    C12_Resumed /\ pc = "done" =>
        /\ Len(tr_metrics) = Len(uninterrupted[1].tr_metrics)
        /\ Len(val_metrics) = Len(uninterrupted[1].val_metrics)
        /\ Len(test_metrics) = Len(uninterrupted[1].test_metrics)
        /\ psnr_range = UnitRange =>
              /\ best_eval_psnr = uninterrupted[1].best_eval_psnr
              /\ best_test_psnr = uninterrupted[1].best_test_psnr

\* what holds of a run resumed from a periodic checkpoint
C13_PeriodicOnly ==
    (C12_Resumed /\ uninterrupted[1].label = "periodic") => C13_SameHistories

\* the training steps of the run so far, in the order they ran
C14_Trained == SelectSeq(trace, LAMBDA e : e[2] = "train")

C14_PastTrain == pc \notin {"checkpoint", "train"}

\* iteration by iteration: the counter has taken 0, 1, ..., step, each once
\* and in order, and each of these iterations drew one training batch and
\* made one optimizer update, whatever sub-loops ran in between
C14_OneUpdatePerStep ==
    crash = "none" =>
        LET n == IF C14_PastTrain THEN step + 1 ELSE step IN
        /\ step \in 0..(steps - 1)
        /\ Len(C14_Trained) = n
        /\ \A i \in 1..n : C14_Trained[i][1] = i - 1
        /\ train_draws = n
        /\ model = n
        /\ optimizer = n
        /\ pc = "done" => step = steps - 1 /\ n = steps

C14_SourcesNonEmpty == train_len >= 1 /\ val_len >= 1 /\ test_len >= 1

\* C14 as stated: no collaborator fails in this model, the validation step
\* count and the test source are finite, so every run is either at Done or
\* has a next statement to take (it never stops anywhere else).
C14_DoneOrRunning == pc = "done" \/ ENABLED Next

\* C14, amended: when no data source is empty, every run eventually reaches
\* Done, after exactly total_steps iterations whose step values are
\* 0, 1, ..., total_steps - 1 in order, each with exactly one training batch
\* draw and one optimizer update.
C14_ReachesDone ==
    /\ []C14_OneUpdatePerStep
    /\ C14_SourcesNonEmpty ~> (pc = "done" /\ crash = "none")

\* a run with both sub-loops in one iteration and a restart of the training
\* feeder has reached Done
C14_Witness ==
    /\ pc = "done"
    /\ C14_SourcesNonEmpty
    /\ steps = MaxSteps
    /\ train_draws = steps
    /\ model = steps
    /\ train_len < steps
    /\ \E s \in 1..(steps - 1) : Fired(s, "evaluate") /\ Fired(s, "test")

C15_SubLoops == {"eval_loop", "test_loop"}

\* the mode the controller is in at each stage of an iteration
C15_ModeOfStage ==
    /\ pc \in C15_SubLoops => mode = "eval"
    /\ pc \notin C15_SubLoops \cup {"crashed"} => mode = "train"

\* what a step may do to the trainable state and the optimizer state
C15_UpdateInTraining ==
    /\ (model' # model \/ optimizer' # optimizer) =>
          /\ pc = "train"
          /\ mode = "train"
          /\ model' = model + 1
          /\ optimizer' = optimizer + 1
    /\ pc \in C15_SubLoops => model' = model /\ optimizer' = optimizer

\* C15: the controller starts in Training; the trainable state and the
\* optimizer state change only by an optimizer update made in Training; the
\* steps of a validation or test sub-loop run in Evaluating and change
\* neither; and once an evaluation or test event has flushed, the controller
\* is in Training at the best-score decision and at every later stage up to
\* the next sub-loop.
C15_TrainingAndEvaluating ==
    /\ []C15_ModeOfStage
    /\ [][C15_UpdateInTraining]_vars

\* both sub-loops have run in one iteration, after two updates, and the
\* controller is at the best-test decision
C15_Witness ==
    /\ pc = "test_best"
    /\ mode = "train"
    /\ model = 2
    /\ Fired(step, "evaluate")
    /\ Fired(step, "test")
    /\ Len(test_window) >= 2

\* the artifact last written under a label, <<>> when there is none
C16_Artifact(store, label) ==
    LET written == SelectSeq(store, LAMBDA a : a.label = label) IN
    IF written = <<>> THEN <<>> ELSE <<Last(written)>>

C16_EvaluationStages == {"evaluate", "eval_loop", "eval_best"}

C16_TestStages == {"test", "test_loop", "test_best"}

C16_NoInteraction ==
    /\ pc \in C16_EvaluationStages =>
          /\ best_test_psnr' = best_test_psnr
          /\ test_metrics' = test_metrics
          /\ test_report_loss' = test_report_loss
          /\ C16_Artifact(saved', "best_test") = C16_Artifact(saved, "best_test")
    /\ pc \in C16_TestStages =>
          /\ best_eval_psnr' = best_eval_psnr
          /\ val_metrics' = val_metrics
          /\ val_report_loss' = val_report_loss
          /\ C16_Artifact(saved', "best_eval") = C16_Artifact(saved, "best_eval")

\* C16: every step of an evaluation event (entering it, its sub-loop, its
\* flush, its best-score save) leaves the best test score, the test history,
\* the test loss accumulator and the best-test artifact as they were, and
\* every step of a test event leaves the best validation score, the
\* validation history, the validation loss accumulator and the best-eval
\* artifact as they were.
C16_TrackersIndependent == [][C16_NoInteraction]_vars

\* both events fired in one iteration, each saved its best artifact, and a
\* later evaluation event ran and saved with the best-test artifact in place
C16_Witness ==
    /\ pc = "next"
    /\ Fired(step, "best_eval")
    /\ \E s \in 1..(step - 1) : Fired(s, "best_eval") /\ Fired(s, "best_test")
    /\ C16_Artifact(saved, "best_test") # <<>>

C17_IsPrefix(a, b) == Len(a) <= Len(b) /\ a = SubSeq(b, 1, Len(a))

C17_Histories == {"tr_metrics", "val_metrics", "test_metrics"}

C17_Live(key) ==
    CASE key = "tr_metrics" -> tr_metrics
      [] key = "val_metrics" -> val_metrics
      [] key = "test_metrics" -> test_metrics

C17_Events(kind) == Len(SelectSeq(trace, LAMBDA e : e[2] = kind))

\* the histories embedded in the checkpoints, oldest first, and the live ones
C17_Prefixes ==
    \A key \in C17_Histories :
        /\ \A i, j \in 1..Len(saved) :
              i < j /\ key \in DOMAIN saved[i].checkpoint
                    /\ key \in DOMAIN saved[j].checkpoint =>
                  C17_IsPrefix(saved[i].checkpoint[key], saved[j].checkpoint[key])
        /\ \A i \in 1..Len(saved) :
              key \in DOMAIN saved[i].checkpoint =>
                  C17_IsPrefix(saved[i].checkpoint[key], C17_Live(key))

\* one snapshot per event that has flushed
C17_OnePerEvent ==
    /\ Len(tr_metrics) = C17_Events("report")
    /\ pc \notin {"eval_loop", "crashed"} => Len(val_metrics) = C17_Events("evaluate")
    /\ pc \notin {"test_loop", "crashed"} => Len(test_metrics) = C17_Events("test")

\* a step leaves a history alone or puts one entry at its end
C17_Grown(h, hnext) ==
    \/ hnext = h
    \/ Len(hnext) = Len(h) + 1 /\ SubSeq(hnext, 1, Len(h)) = h

C17_GrowOnly ==
    /\ C17_Grown(tr_metrics, tr_metrics')
    /\ C17_Grown(val_metrics, val_metrics')
    /\ C17_Grown(test_metrics, test_metrics')

SaveFails ==
    /\ \/ /\ pc = "checkpoint"
          /\ CheckpointDue(step)
          /\ UNCHANGED best
       \/ /\ pc = "eval_best"
          /\ Supersedes(Last(val_metrics).psnr, best_eval_psnr)
          /\ best_eval_psnr' = Last(val_metrics).psnr
          /\ UNCHANGED best_test_psnr
       \/ /\ pc = "test_best"
          /\ Supersedes(Last(test_metrics).psnr, best_test_psnr)
          /\ best_test_psnr' = Last(test_metrics).psnr
          /\ UNCHANGED best_eval_psnr
    /\ Raise("OSError")
    /\ UNCHANGED <<config, uninterrupted, val_steps, step, mode, trainState, scheduler,
                   trainFeed, valFeed, trainAcc, valAcc, testAcc, saved, trace>>

NextFail ==
    \/ Next
    \/ SaveFails

\* the runs over every schedule and every sequence of scores
InitFail == (InitSched \/ InitBest) /\ InitLoop

SpecFail == InitFail /\ [][NextFail]_vars

C18_SaveFailed == crash = "OSError"

\* a failed save ends the run where it is and leaves no bundle behind
C18_Aborted ==
    C18_SaveFailed =>
        /\ pc = "crashed"
        /\ Len(saved) = Len(SelectSeq(trace, IsSaveEvent))

\* C18: once a checkpoint save has failed the run is over: no step follows
\* (no retry of the save, no training step, optimizer update, flush,
\* evaluation or test), and the run is not at Done and never gets there.
C18_SaveFailureIsFatal ==
    /\ []C18_Aborted
    /\ [][~C18_SaveFailed]_vars

\* the best-eval save failed after a periodic checkpoint had been written
C18_Witness ==
    /\ C18_SaveFailed
    /\ step < steps - 1
    /\ Len(saved) >= 1
    /\ Len(val_metrics) >= 1
    /\ best_eval_psnr = Last(val_metrics).psnr
    /\ C16_Artifact(saved, "best_eval") = <<>>

\* every evaluation (test) step list of up to MaxListed values, repeated,
\* unordered or out of range, beside a fixed list for the other phase
InitListed ==
    /\ steps = MaxSteps
    /\ save_interval = MaxInterval
    /\ report_interval = MaxInterval
    /\ lr_decay_intervals = MaxInterval
    /\ \/ /\ evaluation_interval \in ListsUpTo(0..(MaxSteps + 1), MaxListed)
          /\ test_intervals \in {<<>>, <<3, 3>>}
       \/ /\ test_intervals \in ListsUpTo(0..(MaxSteps + 1), MaxListed)
          /\ evaluation_interval \in {<<>>, <<3, 3>>}
    /\ val_steps = 1
    /\ train_len = 1
    /\ val_len = 1
    /\ test_len = 1
    /\ loss_range = UnitRange
    /\ psnr_range = UnitRange
    /\ InitLoop

SpecListed == InitListed /\ [][Next]_vars

\* the distinct listed values that name an iteration after the first
C19_Effective(list) == {e \in Range(list) : 2 <= e /\ e <= steps}

C19_EventsIn(s, kind) == Len(SelectSeq(trace, LAMBDA e : e = <<s, kind>>))

C19_OnePerValue(list, kind, history) ==
    /\ \A e \in C19_Effective(list) : C19_EventsIn(e - 1, kind) = 1
    /\ C17_Events(kind) = Cardinality(C19_Effective(list))
    /\ Len(history) = Cardinality(C19_Effective(list))

\* C19: at Done, every distinct value e of the evaluation (test) step list
\* with 2 <= e <= total_steps has triggered exactly one evaluation (test)
\* event, in iteration e - 1; no other value has triggered any (1, values
\* below 1 or above total_steps, repetitions); and the validation (test)
\* history holds as many snapshots as there are such values.
C19_OneEventPerListedStep ==
    pc = "done" =>
        /\ C19_OnePerValue(evaluation_interval, "evaluate", val_metrics)
        /\ C19_OnePerValue(test_intervals, "test", test_metrics)

\* a finished run whose evaluation list repeats a value and whose test list
\* holds 1 and a value past the end
C19_Witness ==
    /\ pc = "done"
    /\ evaluation_interval = <<3, 3>>
    /\ Len(val_metrics) = 1
    /\ Range(test_intervals) = {1, MaxSteps + 1}
    /\ test_metrics = <<>>

====
